---- MODULE Spec2Model ----
(***************************************************************************)
(* Model of backend/app.py (Flask + SQLAlchemy over MySQL): the /rate,     *)
(* /recommendations and /custom_recommendations handlers and the three     *)
(* tables they touch (ratings, movies, recommendations).                   *)
(*                                                                         *)
(* Each worker (Procs) serves one request at a time.  A handler step is    *)
(* one database transaction (or a rejection that touches no table); the    *)
(* steps of different workers interleave freely.                           *)
(*                                                                         *)
(* Numbers: a rating value is an integer number of points; avg_rating is   *)
(* kept in hundredths of a point (ROUND(AVG(..), 2) * 100).                *)
(***************************************************************************)
EXTENDS Integers, Sequences, FiniteSets, TLC

\* ------------------------------------------------------------------ bounds
NumUsers    == 2
NumMovies   == 2
NumProcs    == 2
MaxRequests == 3
MaxLimit    == 1

\* -------------------------------------------------------- program constants
RateRegenLimit == 15      \* app.py:195  {"uid": user_id, "limit": 15}
DefaultLimit   == 20      \* app.py:209  request.args.get("limit", 20)
MinRating      == 0       \* app.py:165
MaxRating      == 5       \* app.py:165
LikedThreshold == 4       \* spec 4.4 step 4: "rated >= 4.0"
NoSession      == 0       \* app.py:149  "user_id" not in session
NoRow          == 0       \* app.py:168  .first() returned None

Users  == 1..NumUsers
Movies == 1..NumMovies
Procs  == 1..NumProcs

\* models.py:19 genre column; the catalog is seeded outside the application.
Genre(m) == IF m % 3 = 0 THEN "Comedy" ELSE "Drama"

VARIABLES
    ratings,          \* table ratings: (user_id, movie_id) -> its rows' values
    movies,           \* table movies: movie_id -> [avg_rating, ratings_count]
    recommendations,  \* table recommendations: set of rows
    pc,               \* per worker: where its handler stands
    req,              \* per worker: the locals of the request it is serving
    log,              \* per worker: what the request it is serving printed
    nreq,             \* number of requests received so far
    last              \* the handler step taken last: the request as the
                      \* handler had read it, and the response it sent (if any)

vars == <<ratings, movies, recommendations, pc, req, log, nreq, last>>

\* ------------------------------------------------------------ request input
\* Form fields arrive as strings; "" stands for an absent field.
Digits == <<"0", "1", "2", "3", "4", "5", "6", "7", "8", "9">>

MovieIdInputs == {"", "x", "0"} \cup {Digits[m + 1] : m \in Movies}
RatingInputs  == {"", "abc", "nan", "-1", "6", "1", "5"}
Sessions      == {NoSession} \cup Users
Limits        == (1..MaxLimit) \cup {DefaultLimit}

IsDigit(s) == \E i \in 1..10 : Digits[i] = s
DigitVal(s) == (CHOOSE i \in 1..10 : Digits[i] = s) - 1

\* int(movie_id): a value, or ValueError
ParseInt(s) ==
    IF IsDigit(s) THEN [ok |-> TRUE, val |-> DigitVal(s)]
    ELSE [ok |-> FALSE, val |-> 0]

\* float(rating_val): a value (nan included), or ValueError
ParseFloat(s) ==
    CASE IsDigit(s)  -> [ok |-> TRUE,  nan |-> FALSE, val |-> DigitVal(s)]
      [] s = "-1"    -> [ok |-> TRUE,  nan |-> FALSE, val |-> -1]
      [] s = "nan"   -> [ok |-> TRUE,  nan |-> TRUE,  val |-> 0]
      [] OTHER       -> [ok |-> FALSE, nan |-> FALSE, val |-> 0]

\* "user_id" in session
AuthenticatedAlways(s) == TRUE
Authenticated(s) == s # NoSession

\* not movie_id or not rating_val
MissingFields(m, r) == m = "" \/ r = ""

\* 0 <= rating_val <= 5 ; every comparison with nan is False
InRangeNoLowerBound(f) == f.val <= MaxRating
InRange(f) == ~f.nan /\ MinRating <= f.val /\ f.val <= MaxRating

\* ------------------------------------------------------------------ tables
Min2(a, b) == IF a <= b THEN a ELSE b

\* Table ratings (models.py:25-31), kept as (user_id, movie_id) -> the rating
\* values of the rows of that pair, oldest first: a row is known by its pair
\* and its position (its rating_id).  models.py declares no unique key on
\* (user_id, movie_id), so a pair can have several rows.
NoRatings == [k \in (Users \X Movies) |-> <<>>]

\* filter_by(user_id=.., movie_id=..): the values of the pair's rows
PairRows(rs, u, m) == IF <<u, m>> \in DOMAIN rs THEN rs[<<u, m>>] ELSE <<>>

\* .first() with no ORDER BY: any matching row, or None
FirstRating(rs, u, m) ==
    IF PairRows(rs, u, m) = <<>> THEN {NoRow} ELSE DOMAIN PairRows(rs, u, m)

\* r.rating = rating_val  /  db.session.add(Rating(...)); then commit
UpsertRating(rs, r, u, m, v) ==
    IF r # NoRow THEN [rs EXCEPT ![<<u, m>>][r] = v]
    ELSE [rs EXCEPT ![<<u, m>>] = Append(@, v)]

\* SELECT movie_id FROM ratings WHERE user_id = :uid
RatedMovieIds(rs, u) == {m \in Movies : PairRows(rs, u, m) # <<>>}

RECURSIVE SumSeq(_)
SumSeq(s) == IF s = <<>> THEN 0 ELSE Head(s) + SumSeq(Tail(s))

\* ROUND(x, 2) of the double sum/count, in hundredths: round to nearest,
\* ties to even (rint)
Round2(sum, count) ==
    LET q == (100 * sum) \div count
        r == (100 * sum) % count
    IN IF 2 * r < count THEN q
       ELSE IF 2 * r > count THEN q + 1
       ELSE IF q % 2 = 0 THEN q ELSE q + 1

\* COUNT(*) FROM ratings WHERE movie_id = :mid
RECURSIVE CountIn(_, _, _)
CountIn(rs, m, us) ==
    IF us = {} THEN 0
    ELSE LET u == CHOOSE x \in us : TRUE
         IN Len(PairRows(rs, u, m)) + CountIn(rs, m, us \ {u})

CountRatings(rs, m) == CountIn(rs, m, Users)

\* SUM(rating) over the same rows
RECURSIVE SumIn(_, _, _)
SumIn(rs, m, us) ==
    IF us = {} THEN 0
    ELSE LET u == CHOOSE x \in us : TRUE
         IN SumSeq(PairRows(rs, u, m)) + SumIn(rs, m, us \ {u})

SumRatings(rs, m) == SumIn(rs, m, Users)

\* COALESCE(ROUND(AVG(rating), 2), 0)
AvgRatingTruncated(rs, m) ==
    IF CountRatings(rs, m) = 0 THEN 0
    ELSE (100 * SumRatings(rs, m)) \div CountRatings(rs, m)
AvgRating(rs, m) ==
    IF CountRatings(rs, m) = 0 THEN 0
    ELSE Round2(SumRatings(rs, m), CountRatings(rs, m))

\* UPDATE movies SET ratings_count = .., avg_rating = .. WHERE movie_id = :mid
UpdateAggregates(mv, rs, m) ==
    IF m \in DOMAIN mv
    THEN [mv EXCEPT ![m] = [avg_rating |-> AvgRating(rs, m),
                           ratings_count |-> CountRatings(rs, m)]]
    ELSE mv

\* all orderings of a finite set
RECURSIVE Orderings(_)
Orderings(S) ==
    IF S = {} THEN {<<>>}
    ELSE UNION {{<<x>> \o s : s \in Orderings(S \ {x})} : x \in S}

Take(s, n) == SubSeq(s, 1, Min2(n, Len(s)))

\* ORDER BY avg_rating DESC: rows with equal avg_rating come in any order
AvgDescending(mv, s) ==
    \A i \in 1..(Len(s) - 1) : mv[s[i]].avg_rating >= mv[s[i + 1]].avg_rating

OrderByNothing(mv, S) == Orderings(S)
OrderByAvgDesc(mv, S) == {s \in Orderings(S) : AvgDescending(mv, s)}

\* ------------------------------------- generate_recommendations_for_user_v2
\* The stored procedure lives in the database, not in the Python sources;
\* it is modelled from the design document (Recommendation Generator, steps
\* 1-9, and topRated of the Movie Catalog Accessor).
FallbackReason == "Top rated fallback"
LikedReason(g) == "Because you liked " \o g

RecRow(u, m, why) == [user_id |-> u, movie_id |-> m, reason |-> why]

\* step 6: avg_rating descending, then ratings_count descending, then movie
\* id ascending; topRated: avg_rating descending, then movie id ascending
RankedBefore(mv, a, b, byCount) ==
    \/ mv[a].avg_rating > mv[b].avg_rating
    \/ /\ mv[a].avg_rating = mv[b].avg_rating
       /\ byCount
       /\ mv[a].ratings_count > mv[b].ratings_count
    \/ /\ mv[a].avg_rating = mv[b].avg_rating
       /\ (byCount => mv[a].ratings_count = mv[b].ratings_count)
       /\ a < b

RECURSIVE Ranked(_, _, _)
Ranked(mv, S, byCount) ==
    IF S = {} THEN <<>>
    ELSE LET best == CHOOSE x \in S :
                        \A y \in S \ {x} : RankedBefore(mv, x, y, byCount)
         IN <<best>> \o Ranked(mv, S \ {best}, byCount)

\* topRated(excluding, limit)
TopRated(mv, excluding, limit) ==
    Take(Ranked(mv, DOMAIN mv \ excluding, FALSE), limit)

\* the user's best rating of a movie (a pair can have several rows)
RECURSIVE MaxSeq(_)
MaxSeq(s) ==
    IF Len(s) = 1 THEN Head(s)
    ELSE IF Head(s) >= MaxSeq(Tail(s)) THEN Head(s) ELSE MaxSeq(Tail(s))

BestRating(rs, u, m) == MaxSeq(PairRows(rs, u, m))

\* step 4: genres rated >= 4.0, else the genre of the highest-rated movie
\* (lowest movie id among equals)
LikedGenres(rs, u) ==
    LET mine  == RatedMovieIds(rs, u)
        liked == {Genre(m) : m \in {x \in mine : BestRating(rs, u, x) >= LikedThreshold}}
        top   == CHOOSE m \in mine :
                    \A x \in mine :
                        \/ BestRating(rs, u, m) > BestRating(rs, u, x)
                        \/ /\ BestRating(rs, u, m) = BestRating(rs, u, x)
                           /\ m <= x
    IN IF mine = {} THEN {}
       ELSE IF liked # {} THEN liked
       ELSE {Genre(top)}

\* steps 1-8: the ranked (movie, reason) list
Generate(rs, mv, u, limit) ==
    LET rated  == RatedMovieIds(rs, u)
        pool   == {m \in DOMAIN mv \ rated : Genre(m) \in LikedGenres(rs, u)}
        picked == Take(Ranked(mv, pool, TRUE), limit)
        chosen == {picked[i] : i \in DOMAIN picked}
        fill   == TopRated(mv, rated \cup chosen, limit - Len(picked))
    IN [i \in 1..Len(picked) |-> RecRow(u, picked[i], LikedReason(Genre(picked[i])))]
       \o [i \in 1..Len(fill) |-> RecRow(u, fill[i], FallbackReason)]

UserRecs(recs, u) == {r \in recs : r.user_id = u}

\* step 9, replaceForUser: delete the user's rows, insert the first k rows
\* of the list (k = Len(list) when the procedure ran to its end)
ReplaceForUser(recs, u, list, k) ==
    (recs \ UserRecs(recs, u)) \cup {list[i] : i \in 1..k}

\* ---------------------------------------------------------- transactions
\* with db.engine.begin() as conn: commit when the block ends, roll back
\* when it raises.
TxnNoRollback(ok, before, after) == after
Txn(ok, before, after) == IF ok THEN after ELSE before

\* ------------------------------------------------------------------ reads
\* one row of a page: the joined movie's columns and the reason
PageRow(mv, u, m, why) ==
    [user_id |-> u, movie_id |-> m, avg_rating |-> mv[m].avg_rating, reason |-> why]

ReasonOf(recs, u, m) == (CHOOSE r \in UserRecs(recs, u) : r.movie_id = m).reason

\* SELECT .. FROM recommendations r JOIN movies m ON r.movie_id = m.movie_id
\* WHERE r.user_id = :uid ORDER BY m.avg_rating DESC
ReadForUser(recs, mv, u) ==
    LET ms == {r.movie_id : r \in UserRecs(recs, u)} \cap DOMAIN mv
    IN {[i \in 1..Len(s) |-> PageRow(mv, u, s[i], ReasonOf(recs, u, s[i]))] :
            s \in OrderByAvgDesc(mv, ms)}

\* Movie.query.filter(~Movie.movie_id.in_(sub)).order_by(avg_rating.desc())
\* .limit(limit), each tagged "Top rated fallback"
FallbackSelect(rs, mv, u, limit) ==
    {[i \in 1..Len(Take(s, limit)) |-> PageRow(mv, u, s[i], FallbackReason)] :
        s \in OrderByAvgDesc(mv, DOMAIN mv \ RatedMovieIds(rs, u))}

\* --------------------------------------------------------------- requests
NoRequest ==
    [route |-> "none", session |-> NoSession, movie_id |-> "",
     rating |-> "", limit |-> 0, user_id |-> NoSession, movie_id_int |-> 0,
     rating_val |-> 0, r |-> NoRow]

\* the request as far as the handler has read it: the session first, the
\* form fields or the query string only once the session check has passed
Request(route, s, m, v, l) ==
    [NoRequest EXCEPT !.route = route, !.session = s,
                      !.movie_id = m, !.rating = v, !.limit = l]

\* status 0: the step sent no response (the handler goes on)
NoResponse == [status |-> 0, body |-> "", recs |-> <<>>]
Response(status, body) == [status |-> status, body |-> body, recs |-> <<>>]
Page(status, body, recs) == [status |-> status, body |-> body, recs |-> recs]

\* printed: what the request has written to the log so far
Step(name, request, response, printed) ==
    [step |-> name, req |-> request, resp |-> response, printed |-> printed]

Init ==
    /\ ratings = NoRatings
    /\ movies = [m \in Movies |-> [avg_rating |-> 0, ratings_count |-> 0]]
    /\ recommendations = {}
    /\ pc = [p \in Procs |-> "idle"]
    /\ req = [p \in Procs |-> NoRequest]
    /\ log = [p \in Procs |-> {}]
    /\ nreq = 0
    /\ last = Step("none", NoRequest, NoResponse, {})

\* a worker takes the next request off the wire
Receive(p) ==
    /\ pc[p] = "idle"
    /\ nreq < MaxRequests
    /\ nreq' = nreq + 1

\* a request answered in the step that received it
Answer(p, name, request, response, printed) ==
    /\ last' = Step(name, request, response, printed)
    /\ UNCHANGED <<pc, req, log>>

\* ------------------------------------------------------------------ /rate
\* app.py:149-150
RateNotAuthenticated(p) ==
    /\ Receive(p)
    /\ \E s \in Sessions, m \in MovieIdInputs, v \in RatingInputs :
           /\ ~Authenticated(s)
           /\ Answer(p, "rate", Request("rate", s, "", "", 0),
                     Response(401, "not authenticated"), {})
           /\ UNCHANGED <<ratings, movies, recommendations>>

\* app.py:156-157
RateMissingFields(p) ==
    /\ Receive(p)
    /\ \E s \in Sessions, m \in MovieIdInputs, v \in RatingInputs :
           /\ Authenticated(s)
           /\ MissingFields(m, v)
           /\ Answer(p, "rate", Request("rate", s, m, v, 0),
                     Response(400, "missing fields"), {})
           /\ UNCHANGED <<ratings, movies, recommendations>>

\* app.py:159-163
RateInvalid(p) ==
    /\ Receive(p)
    /\ \E s \in Sessions, m \in MovieIdInputs, v \in RatingInputs :
           /\ Authenticated(s)
           /\ ~MissingFields(m, v)
           /\ ~(ParseInt(m).ok /\ ParseFloat(v).ok)
           /\ Answer(p, "rate", Request("rate", s, m, v, 0),
                     Response(400, "invalid rating or movie id"), {})
           /\ UNCHANGED <<ratings, movies, recommendations>>

\* app.py:165-166
RateOutOfRange(p) ==
    /\ Receive(p)
    /\ \E s \in Sessions, m \in MovieIdInputs, v \in RatingInputs :
           /\ Authenticated(s)
           /\ ~MissingFields(m, v)
           /\ ParseInt(m).ok /\ ParseFloat(v).ok
           /\ ~InRange(ParseFloat(v))
           /\ Answer(p, "rate", Request("rate", s, m, v, 0),
                     Response(400, "rating out of range"), {})
           /\ UNCHANGED <<ratings, movies, recommendations>>

\* app.py:152-168: the request passed every check; look the row up
RateQuery(p) ==
    /\ Receive(p)
    /\ \E s \in Sessions, m \in MovieIdInputs, v \in RatingInputs :
           /\ Authenticated(s)
           /\ ~MissingFields(m, v)
           /\ ParseInt(m).ok /\ ParseFloat(v).ok
           /\ InRange(ParseFloat(v))
           /\ \E r \in FirstRating(ratings, s, ParseInt(m).val) :
                req' = [req EXCEPT ![p] =
                          [Request("rate", s, m, v, 0) EXCEPT
                               !.user_id = s,
                               !.movie_id_int = ParseInt(m).val,
                               !.rating_val = ParseFloat(v).val,
                               !.r = r]]
           /\ log' = [log EXCEPT ![p] = {}]
           /\ pc' = [pc EXCEPT ![p] = "rate_commit"]
           /\ last' = Step("rate_query", req'[p], NoResponse, {})
           /\ UNCHANGED <<ratings, movies, recommendations>>

\* the request ends: its locals and its log are gone
Finish(p, name, response, printed) ==
    /\ pc' = [pc EXCEPT ![p] = "idle"]
    /\ req' = [req EXCEPT ![p] = NoRequest]
    /\ log' = [log EXCEPT ![p] = {}]
    /\ last' = Step(name, req[p], response, log[p] \cup printed)

\* the handler goes on to its next statement, having printed what it did
Continue(p, name, to, printed) ==
    /\ pc' = [pc EXCEPT ![p] = to]
    /\ log' = [log EXCEPT ![p] = @ \cup printed]
    /\ last' = Step(name, req[p], NoResponse, log[p] \cup printed)
    /\ UNCHANGED req

\* app.py:170-175: r.rating = .. or add(Rating(..)); db.session.commit().
\* The commit raises when the store refuses the write (always so for a
\* movie_id that is in no movies row: the foreign key of models.py:29);
\* nothing catches it and the request ends as a server error.
RateCommit(p) ==
    /\ pc[p] = "rate_commit"
    /\ \/ /\ req[p].movie_id_int \in DOMAIN movies
          /\ ratings' = UpsertRating(ratings, req[p].r, req[p].user_id,
                                     req[p].movie_id_int, req[p].rating_val)
          /\ Continue(p, "rate_commit", "rate_aggregate", {})
       \/ /\ ratings' = ratings
          /\ Finish(p, "rate_commit", Response(500, "Internal Server Error"), {})
    /\ UNCHANGED <<movies, recommendations, nreq>>

\* app.py:178-188 without the try/except: the failure ends the request
RateAggregateUncaught(p) ==
    /\ pc[p] = "rate_aggregate"
    /\ \/ /\ movies' = Txn(TRUE, movies,
                           UpdateAggregates(movies, ratings, req[p].movie_id_int))
          /\ Continue(p, "rate_aggregate", "rate_regenerate", {})
       \/ /\ movies' = Txn(FALSE, movies,
                           UpdateAggregates(movies, ratings, req[p].movie_id_int))
          /\ Finish(p, "rate_aggregate", Response(500, "Internal Server Error"),
                 {"Aggregate update failed"})
    /\ UNCHANGED <<ratings, recommendations, nreq>>

\* app.py:178-188
RateAggregate(p) ==
    /\ pc[p] = "rate_aggregate"
    /\ \/ /\ movies' = Txn(TRUE, movies,
                           UpdateAggregates(movies, ratings, req[p].movie_id_int))
          /\ Continue(p, "rate_aggregate", "rate_regenerate", {})
       \/ /\ movies' = Txn(FALSE, movies,
                           UpdateAggregates(movies, ratings, req[p].movie_id_int))
          /\ Continue(p, "rate_aggregate", "rate_regenerate",
                      {"Aggregate update failed"})
    /\ UNCHANGED <<ratings, recommendations, nreq>>

\* where a transaction that runs the procedure can stand when it fails:
\* before the call, or after the delete and the first k inserts
FailurePoints(recs, u, list) ==
    {recs} \cup {ReplaceForUser(recs, u, list, k) : k \in 0..Len(list)}

\* app.py:191-199
RateRegenerate(p) ==
    /\ pc[p] = "rate_regenerate"
    /\ LET u    == req[p].user_id
           list == Generate(ratings, movies, u, RateRegenLimit)
       IN \/ /\ recommendations' =
                    Txn(TRUE, recommendations,
                        ReplaceForUser(recommendations, u, list, Len(list)))
             /\ Finish(p, "rate", Response(200, "ok"), {})
          \/ /\ \E staged \in FailurePoints(recommendations, u, list) :
                    recommendations' = Txn(FALSE, recommendations, staged)
             /\ Finish(p, "rate", Response(200, "ok"),
                       {"Auto-recommendation update failed"})
    /\ UNCHANGED <<ratings, movies, nreq>>

\* -------------------------------------------------------- /recommendations
\* app.py:204-206
RecommendationsNotAuthenticated(p) ==
    /\ Receive(p)
    /\ \E s \in Sessions, l \in Limits :
           /\ ~Authenticated(s)
           /\ Answer(p, "recommendations", Request("recommendations", s, "", "", 0),
                     Response(302, "login"), {})
           /\ UNCHANGED <<ratings, movies, recommendations>>

\* app.py:208-226, 250: the procedure and the SELECT in one transaction
RecommendationsStored(p) ==
    /\ Receive(p)
    /\ \E s \in Sessions, l \in Limits :
           /\ Authenticated(s)
           /\ LET list == Generate(ratings, movies, s, l)
              IN recommendations' =
                     Txn(TRUE, recommendations,
                         ReplaceForUser(recommendations, s, list, Len(list)))
           /\ \E page \in ReadForUser(recommendations', movies, s) :
                Answer(p, "recommendations",
                       [Request("recommendations", s, "", "", l) EXCEPT !.user_id = s],
                       Page(200, "recommendations.html", page), {})
           /\ UNCHANGED <<ratings, movies>>

\* app.py:228-250: the try block raised ("Recommendation proc failed" is
\* printed); the transaction is rolled back and the page is built from the
\* movies the user has not rated
RecommendationsFallback(p) ==
    /\ Receive(p)
    /\ \E s \in Sessions, l \in Limits :
           /\ Authenticated(s)
           /\ \E staged \in FailurePoints(recommendations, s, Generate(ratings, movies, s, l)) :
                recommendations' = Txn(FALSE, recommendations, staged)
           /\ \E page \in FallbackSelect(ratings, movies, s, l) :
                Answer(p, "recommendations_fallback",
                       [Request("recommendations", s, "", "", l) EXCEPT !.user_id = s],
                       Page(200, "recommendations.html", page),
                       {"Recommendation proc failed"})
           /\ UNCHANGED <<ratings, movies>>

\* ------------------------------------------------- /custom_recommendations
\* app.py:255-257
CustomNotAuthenticated(p) ==
    /\ Receive(p)
    /\ \E s \in Sessions :
           /\ ~Authenticated(s)
           /\ Answer(p, "custom_recommendations",
                     Request("custom_recommendations", s, "", "", 0),
                     Response(302, "login"), {})
           /\ UNCHANGED <<ratings, movies, recommendations>>

\* app.py:259-270: the stored rows, as they are
CustomRecommendations(p) ==
    /\ Receive(p)
    /\ \E s \in Sessions :
           /\ Authenticated(s)
           /\ \E page \in ReadForUser(recommendations, movies, s) :
                Answer(p, "custom_recommendations",
                       [Request("custom_recommendations", s, "", "", 0) EXCEPT !.user_id = s],
                       Page(200, "custom_recomm.html", page), {})
           /\ UNCHANGED <<ratings, movies, recommendations>>

\* -------------------------------------------------------------- the system
Next ==
    \E p \in Procs :
        \/ RateNotAuthenticated(p)
        \/ RateMissingFields(p)
        \/ RateInvalid(p)
        \/ RateOutOfRange(p)
        \/ RateQuery(p)
        \/ RateCommit(p)
        \/ RateAggregate(p)
        \/ RateRegenerate(p)
        \/ RecommendationsNotAuthenticated(p)
        \/ RecommendationsStored(p)
        \/ RecommendationsFallback(p)
        \/ CustomNotAuthenticated(p)
        \/ CustomRecommendations(p)

Spec == Init /\ [][Next]_vars

\* ------------------------------------------------------------ properties
Tables == <<ratings, movies, recommendations>>

\* this step received a request
Received == nreq' = nreq + 1

\* this step returned a page of recommendations
ReadSteps == {"recommendations", "recommendations_fallback", "custom_recommendations"}
ReturnedPage == Received /\ last'.step \in ReadSteps /\ last'.resp.status = 200

PageMovies(page) == {page[i].movie_id : i \in DOMAIN page}

AbsDiff(a, b) == IF a >= b THEN a - b ELSE b - a

\* avg (hundredths) is a nearest hundredth of sum/count, 0 for no rows
IsRoundedMean(avg, sum, count) ==
    IF count = 0 THEN avg = 0
    ELSE 2 * AbsDiff(100 * sum, count * avg) <= count

AggregatesMatch(mv, rs, m) ==
    /\ mv[m].ratings_count = CountRatings(rs, m)
    /\ IsRoundedMean(mv[m].avg_rating, SumRatings(rs, m), CountRatings(rs, m))

\* C1: in every reachable state the ratings table holds at most one row
\* per (user, movie) pair, and when a rate request commits its write the
\* pair's single row holds that request's value.
C1_OneRatingPerPair ==
    /\ [](\A k \in DOMAIN ratings : Len(ratings[k]) <= 1)
    /\ [][\A p \in Procs :
            (pc[p] = "rate_commit" /\ pc'[p] = "rate_aggregate")
            => PairRows(ratings', req[p].user_id, req[p].movie_id_int)
                   = <<req[p].rating_val>>]_vars

\* C2 (as claimed): when a rate request for movie M reports ok, the stored
\* avg_rating(M) is the rounded mean of M's rating rows and ratings_count(M)
\* their number.
C2_AggregatesMatchAtOk ==
    [][\A p \in Procs :
         (pc[p] = "rate_regenerate" /\ pc'[p] = "idle")
         => AggregatesMatch(movies', ratings', req[p].movie_id_int)]_vars

\* C2 (amended): when the aggregate recalculation of a rate request for
\* movie M succeeds, the stored avg_rating(M) is the rounded mean of M's
\* rating rows at that moment and ratings_count(M) their number.
C2_AggregatesMatchAtRecalc ==
    [][\A p \in Procs :
         (/\ pc[p] = "rate_aggregate"
          /\ pc'[p] = "rate_regenerate"
          /\ "Aggregate update failed" \notin log'[p])
         => AggregatesMatch(movies', ratings', req[p].movie_id_int)]_vars

\* a recalculation has just succeeded for a movie with several rows whose
\* mean is not a whole number of hundredths
C2_Witness ==
    \E p \in Procs :
        /\ pc[p] = "rate_regenerate"
        /\ last.step = "rate_aggregate"
        /\ last.req = req[p]
        /\ "Aggregate update failed" \notin log[p]
        /\ CountRatings(ratings, req[p].movie_id_int) = 3
        /\ (100 * SumRatings(ratings, req[p].movie_id_int)) % 3 # 0
        /\ AggregatesMatch(movies, ratings, req[p].movie_id_int)

\* C3: no recommendation read (/recommendations or the stored rows of
\* /custom_recommendations) returns a movie the user has a rating row for.
C3_NeverRecommendsRated ==
    [][ReturnedPage
       => PageMovies(last'.resp.recs)
              \cap RatedMovieIds(ratings', last'.req.user_id) = {}]_vars

\* the rating values of the requests that are non-numeric or outside [0,5]
BadRatingInputs == {"abc", "nan", "-1", "6"}

\* C4: a rate request whose value is non-numeric or outside [0,5] is
\* answered with an error in the step that receives it, and that step
\* changes no table and starts no further work.
C4_InvalidValueRejected ==
    [][(Received /\ last'.req.route = "rate" /\ last'.req.rating \in BadRatingInputs)
       => /\ last'.resp.status = 400
          /\ UNCHANGED Tables
          /\ UNCHANGED pc]_vars

\* a bad value has been rejected while the tables held rows
C4_Witness ==
    /\ last.req.route = "rate"
    /\ last.req.rating \in BadRatingInputs
    /\ last.resp.status = 400
    /\ \E k \in DOMAIN ratings : ratings[k] # <<>>
    /\ recommendations # {}

\* the page is the top of the whole catalog by avg_rating descending
IsTopRatedPage(page, mv, limit) ==
    /\ Len(page) = Min2(limit, Cardinality(DOMAIN mv))
    /\ Cardinality(PageMovies(page)) = Len(page)
    /\ \A i \in DOMAIN page :
         /\ page[i].movie_id \in DOMAIN mv
         /\ page[i].reason = "Top rated fallback"
         /\ page[i].avg_rating = mv[page[i].movie_id].avg_rating
         /\ \A j \in DOMAIN page : i < j => page[i].avg_rating >= page[j].avg_rating
         /\ \A m \in DOMAIN mv \ PageMovies(page) :
                mv[m].avg_rating <= page[i].avg_rating

\* C5: for a user with no rating row, /recommendations with limit L returns
\* the top min(L, catalog size) movies of the whole catalog by avg_rating
\* descending, each with reason "Top rated fallback".
C5_ZeroRatingsGetFallback ==
    [][(/\ ReturnedPage
        /\ last'.req.route = "recommendations"
        /\ RatedMovieIds(ratings, last'.req.user_id) = {})
       => IsTopRatedPage(last'.resp.recs, movies, last'.req.limit)]_vars

\* a user with no rating row has been served a page whose movies differ in
\* avg_rating, by the fallback query
C5_Witness ==
    /\ last.step = "recommendations_fallback"
    /\ last.resp.status = 200
    /\ RatedMovieIds(ratings, last.req.user_id) = {}
    /\ Len(last.resp.recs) >= 2
    /\ last.resp.recs[1].avg_rating > last.resp.recs[2].avg_rating

\* C6: two /recommendations reads in a row for the same user with the same
\* limit, served the same way, return the same ordered list.
C6_ReadsDeterministic ==
    [][(/\ ReturnedPage
        /\ last'.req.route = "recommendations"
        /\ last.resp.status = 200
        /\ last.step = last'.step
        /\ last.req = last'.req)
       => last'.resp.recs = last.resp.recs]_vars

\* C7: once the rating write has committed, the aggregate step and the
\* regeneration step, failing or not, leave the ratings table as it is, the
\* handler goes on from the one to the other, and the request ends with ok.
C7_SideEffectFailureNotFatal ==
    [][\A p \in Procs :
         /\ (pc[p] = "rate_aggregate" /\ pc'[p] # pc[p])
            => (ratings' = ratings /\ pc'[p] = "rate_regenerate")
         /\ (pc[p] = "rate_regenerate" /\ pc'[p] # pc[p])
            => (/\ ratings' = ratings
                /\ last'.step = "rate"
                /\ last'.resp = Response(200, "ok"))]_vars

\* a rate request has ended with ok after both of its side steps failed,
\* and its row is in the table
C7_Witness ==
    /\ last.step = "rate"
    /\ last.resp = Response(200, "ok")
    /\ last.printed = {"Aggregate update failed", "Auto-recommendation update failed"}
    /\ PairRows(ratings, last.req.user_id, last.req.movie_id_int) # <<>>
    /\ ~AggregatesMatch(movies, ratings, last.req.movie_id_int)

\* C8: a request without an authenticated user id is answered (401, or a
\* redirect to the login page) in the step that receives it, and that step
\* changes no table and starts no further work.
C8_UnauthenticatedRejected ==
    [][(Received /\ last'.req.session = NoSession)
       => /\ last'.resp.status \in {401, 302}
          /\ UNCHANGED Tables
          /\ UNCHANGED pc]_vars

\* an unauthenticated request has been rejected while the tables held rows
C8_Witness ==
    /\ last.req.route \in {"rate", "recommendations", "custom_recommendations"}
    /\ last.req.session = NoSession
    /\ last.resp.status \in {401, 302}
    /\ \E k \in DOMAIN ratings : ratings[k] # <<>>
    /\ recommendations # {}

\* C9: a recommendation read that finds no stored row for the user, or whose
\* generate/read step failed, returns the fallback list (top-rated movies
\* the user has not rated), not an empty list, when the user has left a
\* movie unrated.
C9_EmptyStoreFallsBack ==
    [][(/\ ReturnedPage
        /\ \/ UserRecs(recommendations', last'.req.user_id) = {}
           \/ last'.step = "recommendations_fallback"
        /\ Movies \ RatedMovieIds(ratings, last'.req.user_id) # {})
       => /\ last'.resp.recs # <<>>
          /\ \E l \in Limits :
               /\ last'.req.route = "recommendations" => l = last'.req.limit
               /\ last'.resp.recs \in FallbackSelect(ratings, movies, last'.req.user_id, l)]_vars

\* the limit the regeneration of this step ran with
RegenerationLimit == IF last'.step = "rate" THEN RateRegenLimit ELSE last'.req.limit

====
